---- MODULE Spec2Model ----
(***************************************************************************)
(* Model of the MultiversX message-verification handler of the ampd        *)
(* verifier node (ampd/src/handlers/mvx_verify_msg.rs).                    *)
(*                                                                         *)
(* One invocation of Handler::handle is two steps: the synchronous part up *)
(* to the evidence request (HandleBegin) and the part after the await      *)
(* (FetchReturn).  The height oracle (a tokio watch channel) is written by *)
(* its single writer (OracleSend).                                         *)
(***************************************************************************)
EXTENDS Integers, Sequences, FiniteSets, TLC

(***************************************************************************)
(* Bounds of the model.                                                    *)
(***************************************************************************)
MaxMsgs == 2
MaxHeight == 2
MaxLogs == 2

(***************************************************************************)
(* Invocation slots of the dispatcher.  The sequential specification uses  *)
(* one slot; the slots are the domain of the per-invocation variables.     *)
(***************************************************************************)
Procs == {1, 2}
SeqProcs == {1}

(***************************************************************************)
(* Value universes.                                                        *)
(***************************************************************************)
Worker == "axelar1worker"
VotingVerifier == "axelar1votingverifier"
ContractAddresses == {VotingVerifier, "axelar1other"}

PollStartedTag == "wasm-messages_poll_started"

Gateway == "erd1gateway"
InvalidAddress == "not-a-bech32-address"

TxIds == {"tx1", "tx2"}
PollIds == {100, 101}

\* struct Message
Message(tx, idx) ==
    [tx_id |-> tx,
     event_index |-> idx,
     destination_address |-> "0xdest",
     destination_chain |-> "ethereum",
     source_address |-> "erd1source",
     payload_hash |-> "hash-of-payload"]

\* the messages polls are about: two of them share a transaction
Messages == {Message("tx1", 0), Message("tx1", 1), Message("tx2", 0)}

RECURSIVE SeqsUpTo(_, _)
SeqsUpTo(S, n) ==
    IF n = 0 THEN {<<>>}
    ELSE LET shorter == SeqsUpTo(S, n - 1)
         IN  shorter \cup {Append(s, e) : s \in {t \in shorter : Len(t) = n - 1}, e \in S}

MessageLists == SeqsUpTo(Messages, MaxMsgs)

ParticipantLists ==
    {<<>>, <<"axelar1other">>, <<"axelar1other", Worker>>}

\* struct PollStartedEvent, as the attribute bag of an event
PollAttrs ==
    [poll_id : PollIds,
     source_gateway_address : {Gateway},
     messages : MessageLists,
     participants : ParticipantLists,
     expires_at : 0..MaxHeight]

\* attribute bags that do not deserialize into a PollStartedEvent: a required
\* field is missing, or the gateway address is not a valid address
MalformedAttrs ==
    {[poll_id |-> 100,
      source_gateway_address |-> Gateway,
      messages |-> <<Message("tx1", 0)>>,
      participants |-> <<Worker>>],
     [poll_id |-> 100,
      source_gateway_address |-> InvalidAddress,
      messages |-> <<Message("tx1", 0)>>,
      participants |-> <<Worker>>,
      expires_at |-> MaxHeight]}

NoAttrs == [amount |-> 1]

SamplePoll ==
    [poll_id |-> 100,
     source_gateway_address |-> Gateway,
     messages |-> <<Message("tx1", 0)>>,
     participants |-> <<"axelar1other", Worker>>,
     expires_at |-> MaxHeight]

\* events::Event as the handler sees it: emitting contract, type tag, attributes
Events ==
    [contract : ContractAddresses, type : {PollStartedTag}, attrs : PollAttrs]
    \cup [contract : ContractAddresses, type : {PollStartedTag}, attrs : MalformedAttrs]
    \cup [contract : ContractAddresses, type : {"transfer"},
          attrs : MalformedAttrs \cup {NoAttrs, SamplePoll}]

NoEvent == [contract |-> "", type |-> "", attrs |-> NoAttrs]

(***************************************************************************)
(* Transaction evidence and the evidence source's responses.               *)
(***************************************************************************)
\* the gateway log record a message leaves in its transaction
LogFor(gateway, msg) ==
    [address |-> gateway,
     event_index |-> msg.event_index,
     source_address |-> msg.source_address,
     destination_chain |-> msg.destination_chain,
     destination_address |-> msg.destination_address,
     payload_hash |-> msg.payload_hash]

\* evidence the source may hold for a transaction id: a failed execution, a
\* successful one without gateway log, a successful one with the log of the
\* message at event index 0
EvidenceFor(tx) ==
    {[hash |-> tx, status |-> "fail", logs |-> {LogFor(Gateway, Message(tx, 0))}],
     [hash |-> tx, status |-> "success", logs |-> {}],
     [hash |-> tx, status |-> "success", logs |-> {LogFor(Gateway, Message(tx, 0))}]}

AllEvidence == UNION {EvidenceFor(tx) : tx \in TxIds}

EvidenceMaps ==
    UNION {{f \in [D -> AllEvidence] : \A tx \in D : f[tx] \in EvidenceFor(tx)} :
           D \in SUBSET TxIds}

\* Result<HashMap<Hash, TransactionOnNetwork>> of transactions_info_with_results
FetchError == [ok |-> FALSE, info |-> <<>>]
Responses == {FetchError} \cup {[ok |-> TRUE, info |-> f] : f \in EvidenceMaps}

\* variant: the execution status of the transaction is not looked at
verify_message_any_status(gateway_address, transaction, msg) ==
    IF /\ transaction.hash = msg.tx_id
       /\ LogFor(gateway_address, msg) \in transaction.logs
    THEN "SucceededOnChain"
    ELSE "FailedOnChain"

\* mvx::verifier::verify_message
verify_message(gateway_address, transaction, msg) ==
    IF /\ transaction.hash = msg.tx_id
       /\ transaction.status = "success"
       /\ LogFor(gateway_address, msg) \in transaction.logs
    THEN "SucceededOnChain"
    ELSE "FailedOnChain"

(***************************************************************************)
(* Decoding of an event into a PollStartedEvent (events_derive::try_from). *)
(***************************************************************************)
RequiredFields ==
    {"poll_id", "source_gateway_address", "messages", "participants", "expires_at"}

\* event.try_into(): the tag is compared first, then the attributes are
\* deserialized
TryInto(ev) ==
    IF ev.type # PollStartedTag
    THEN [ok |-> FALSE, err |-> "EventTypeMismatch", poll |-> SamplePoll]
    ELSE IF \/ ~(RequiredFields \subseteq DOMAIN ev.attrs)
            \/ ev.attrs.source_gateway_address = InvalidAddress
         THEN [ok |-> FALSE, err |-> "DeserializationFailed", poll |-> SamplePoll]
         ELSE [ok |-> TRUE, err |-> "",
               poll |-> [f \in RequiredFields |-> ev.attrs[f]]]

\* Event::is_from_contract
is_from_contract(ev, contract) == ev.contract = contract

\* Vec::contains
Contains(seq, x) == \E i \in 1..Len(seq) : seq[i] = x

(***************************************************************************)
(* The outbound message.                                                   *)
(***************************************************************************)
\* serde rename of the Vote variants
VoteJson(v) ==
    CASE v = "SucceededOnChain" -> "succeeded_on_chain"
      [] v = "FailedOnChain" -> "failed_on_chain"
      [] v = "NotFound" -> "not_found"

\* serde_json::to_vec(&ExecuteMsg::Vote { poll_id, votes }), as JSON tokens
ToVec(poll_id, votes) ==
    <<"{", "vote", "poll_id", poll_id, "votes", "[">>
    \o [i \in 1..Len(votes) |-> VoteJson(votes[i])]
    \o <<"]", "}">>

MsgExecuteContractTypeUrl == "/cosmwasm.wasm.v1.MsgExecuteContract"

\* Msg::into_any: the type url and the fields in their protobuf order
IntoAny(m) ==
    [type_url |-> MsgExecuteContractTypeUrl,
     value |-> <<m.sender, m.contract, m.msg, m.funds>>]

(***************************************************************************)
(* State.                                                                  *)
(***************************************************************************)
VARIABLES
    verifier,                  \* Handler.verifier
    voting_verifier_contract,  \* Handler.voting_verifier_contract
    latest_block_height,       \* value of the watch channel behind Handler.latest_block_height
    pc,                        \* per invocation slot: "idle", "fetching" (suspended at .await),
                               \* "done", "cancelled" (dropped while suspended)
    event,                     \* the event handle was called with
    response,                  \* what the evidence source answers to this invocation
    snapshot,                  \* heights read from the oracle by this invocation
    requests,                  \* sets of tx ids this invocation requested from the evidence source
    decodes,                   \* number of event.try_into() attempts of this invocation
    logs,                      \* poll ids this invocation reported as "skipping expired poll"
    result,                    \* what handle returned
    prev,                      \* what the preceding call with the same event and response
                               \* returned, and the heights it read
    verification               \* a call of verify_message: its arguments and the vote returned

vars ==
    <<verifier, voting_verifier_contract, latest_block_height, pc, event, response,
      snapshot, requests, decodes, logs, result, prev, verification>>

config == <<verifier, voting_verifier_contract>>

\* Result<Vec<Any>>
NoResult == [kind |-> "none", msgs |-> <<>>, err |-> ""]
Ok(msgs) == [kind |-> "ok", msgs |-> msgs, err |-> ""]
Err(e) == [kind |-> "err", msgs |-> <<>>, err |-> e]

NoPrev == [result |-> NoResult, heights |-> <<>>]

NoVerification ==
    [gateway |-> Gateway,
     transaction |-> [hash |-> "tx1", status |-> "fail", logs |-> {}],
     msg |-> Message("tx1", 0),
     vote |-> "none"]

\* variant: the origin test is inverted
NotFromVerifier_inverted(ev) == is_from_contract(ev, voting_verifier_contract)

\* the origin filter of handle
NotFromVerifier(ev) == ~is_from_contract(ev, voting_verifier_contract)

\* variant: no arm for the tag mismatch, every decoding failure is an error
DecodeStep_no_skip(ev) ==
    IF ~TryInto(ev).ok THEN "error" ELSE "poll"

\* variant: every decoding failure is skipped
DecodeStep_all_skip(ev) ==
    IF ~TryInto(ev).ok THEN "skip" ELSE "poll"

\* the match on the decoding result in handle: a tag mismatch is skipped, any
\* other failure becomes Error::DeserializeEvent
DecodeStep(ev) ==
    IF ~TryInto(ev).ok /\ TryInto(ev).err = "EventTypeMismatch" THEN "skip"
    ELSE IF ~TryInto(ev).ok THEN "error"
    ELSE "poll"

\* variant: the participation test is inverted
NotParticipant_inverted(participants) == Contains(participants, verifier)

\* the participation filter of handle
NotParticipant(participants) == ~Contains(participants, verifier)

\* variant: sender and target contract are exchanged
vote_msg_swapped(poll_id, votes) ==
    [sender |-> voting_verifier_contract,
     contract |-> verifier,
     msg |-> ToVec(poll_id, votes),
     funds |-> <<>>]

\* Handler::vote_msg
vote_msg(poll_id, votes) ==
    [sender |-> verifier,
     contract |-> voting_verifier_contract,
     msg |-> ToVec(poll_id, votes),
     funds |-> <<>>]

\* variant: a poll is still voted on at its expiry height
Expired_strict(height, expires_at) == height > expires_at

\* variant: a poll is given up one block before its expiry height
Expired_early(height, expires_at) == height + 1 >= expires_at

\* the expiry test of handle
Expired(height, expires_at) == height >= expires_at

\* variant: only the first message's transaction is requested
TxHashes_first(messages) == IF messages = <<>> THEN {} ELSE {messages[1].tx_id}

\* the HashSet of the messages' tx ids
TxHashes(messages) == {messages[i].tx_id : i \in 1..Len(messages)}

\* variant: a transaction missing from the evidence counts as failed
VoteFor_absent_failed(transactions_info, source_gateway_address, msg) ==
    IF msg.tx_id \in DOMAIN transactions_info
    THEN verify_message(source_gateway_address, transactions_info[msg.tx_id], msg)
    ELSE "FailedOnChain"

\* variant: the evidence is taken from some entry of the map, not from the
\* entry of the message's own transaction id
VoteFor_any_entry(transactions_info, source_gateway_address, msg) ==
    IF msg.tx_id \in DOMAIN transactions_info
    THEN verify_message(source_gateway_address,
                        transactions_info[CHOOSE tx \in DOMAIN transactions_info :
                                             tx # msg.tx_id \/ DOMAIN transactions_info = {tx}],
                        msg)
    ELSE "NotFound"

\* the vote of one message, given the evidence map
VoteFor(transactions_info, source_gateway_address, msg) ==
    IF msg.tx_id \in DOMAIN transactions_info
    THEN verify_message(source_gateway_address, transactions_info[msg.tx_id], msg)
    ELSE "NotFound"

\* variant: one vote per distinct transaction id, in order of first occurrence
RECURSIVE VotesPerTx(_, _, _, _)
VotesPerTx(transactions_info, source_gateway_address, messages, seen) ==
    IF messages = <<>> THEN <<>>
    ELSE IF Head(messages).tx_id \in seen
         THEN VotesPerTx(transactions_info, source_gateway_address, Tail(messages), seen)
         ELSE <<VoteFor(transactions_info, source_gateway_address, Head(messages))>>
              \o VotesPerTx(transactions_info, source_gateway_address, Tail(messages),
                            seen \cup {Head(messages).tx_id})

CollectVotes_per_tx(transactions_info, source_gateway_address, messages) ==
    VotesPerTx(transactions_info, source_gateway_address, messages, {})

\* messages.iter().map(..).collect()
CollectVotes(transactions_info, source_gateway_address, messages) ==
    [i \in 1..Len(messages) |->
        VoteFor(transactions_info, source_gateway_address, messages[i])]

\* variant: a failed fetch is treated as an empty evidence map
AfterFetch_swallow(poll, resp) ==
    Ok(<<IntoAny(vote_msg(poll.poll_id,
            CollectVotes(resp.info, poll.source_gateway_address, poll.messages)))>>)

\* variant: a failed fetch still emits a vote message, without votes
AfterFetch_partial(poll, resp) ==
    IF ~resp.ok
    THEN Ok(<<IntoAny(vote_msg(poll.poll_id, <<>>))>>)
    ELSE Ok(<<IntoAny(vote_msg(poll.poll_id,
                CollectVotes(resp.info, poll.source_gateway_address, poll.messages)))>>)

\* variant: a failed fetch is treated like a skip
AfterFetch_skip_on_error(poll, resp) ==
    IF ~resp.ok
    THEN Ok(<<>>)
    ELSE Ok(<<IntoAny(vote_msg(poll.poll_id,
                CollectVotes(resp.info, poll.source_gateway_address, poll.messages)))>>)

\* variant: a poll without messages is skipped after the fetch
AfterFetch_empty_skip(poll, resp) ==
    IF ~resp.ok
    THEN Err("TxReceipts")
    ELSE IF poll.messages = <<>>
         THEN Ok(<<>>)
         ELSE Ok(<<IntoAny(vote_msg(poll.poll_id,
                     CollectVotes(resp.info, poll.source_gateway_address, poll.messages)))>>)

\* variant: the oracle is read again after the fetch and an expired poll is
\* given up
AfterFetch_recheck(poll, resp) ==
    IF ~resp.ok
    THEN Err("TxReceipts")
    ELSE IF Expired(latest_block_height, poll.expires_at)
         THEN Ok(<<>>)
         ELSE Ok(<<IntoAny(vote_msg(poll.poll_id,
                     CollectVotes(resp.info, poll.source_gateway_address, poll.messages)))>>)

\* handle after the await: the fetch result is propagated or turned into votes
AfterFetch(poll, resp) ==
    IF ~resp.ok
    THEN Err("TxReceipts")
    ELSE Ok(<<IntoAny(vote_msg(poll.poll_id,
                CollectVotes(resp.info, poll.source_gateway_address, poll.messages)))>>)

(***************************************************************************)
(* Init: Handler::new, no invocation running.                              *)
(***************************************************************************)
InitHandler ==
    /\ verifier = Worker
    /\ voting_verifier_contract = VotingVerifier
    /\ latest_block_height \in 0..MaxHeight
    /\ pc = [p \in Procs |-> "idle"]
    /\ event = [p \in Procs |-> NoEvent]
    /\ response = [p \in Procs |-> FetchError]
    /\ snapshot = [p \in Procs |-> <<>>]
    /\ requests = [p \in Procs |-> <<>>]
    /\ decodes = [p \in Procs |-> 0]
    /\ logs = [p \in Procs |-> <<>>]
    /\ result = [p \in Procs |-> NoResult]
    /\ prev = [p \in Procs |-> NoPrev]

Init == InitHandler /\ verification = NoVerification

(***************************************************************************)
(* handle, from its entry to the first return or to the await of the       *)
(* evidence request.                                                       *)
(***************************************************************************)
\* variant: the expiry filter runs before the participation filter
FilterStage_expiry_first(ev, height) ==
    IF NotFromVerifier(ev) THEN "origin"
    ELSE IF DecodeStep(ev) = "skip" THEN "mismatch"
    ELSE IF DecodeStep(ev) = "error" THEN "malformed"
    ELSE IF Expired(height, TryInto(ev).poll.expires_at) THEN "expired"
    ELSE IF NotParticipant(TryInto(ev).poll.participants) THEN "participant"
    ELSE "fetch"

\* the filters of handle in their order: which of the early returns is taken
\* for the event at the given oracle height, or "fetch" if none is
FilterStage(ev, height) ==
    IF NotFromVerifier(ev) THEN "origin"
    ELSE IF DecodeStep(ev) = "skip" THEN "mismatch"
    ELSE IF DecodeStep(ev) = "error" THEN "malformed"
    ELSE IF NotParticipant(TryInto(ev).poll.participants) THEN "participant"
    ELSE IF Expired(height, TryInto(ev).poll.expires_at) THEN "expired"
    ELSE "fetch"

Begin(p, ev, resp) ==
    LET poll == TryInto(ev).poll
        height == latest_block_height
        at == FilterStage(ev, height)
    IN  /\ event' = [event EXCEPT ![p] = ev]
        /\ response' = [response EXCEPT ![p] = resp]
        /\ decodes' = [decodes EXCEPT ![p] = IF at = "origin" THEN 0 ELSE 1]
        /\ snapshot' = [snapshot EXCEPT ![p] =
                            IF at \in {"expired", "fetch"} THEN <<height>> ELSE <<>>]
        /\ logs' = [logs EXCEPT ![p] =
                            IF at = "expired" THEN <<poll.poll_id>> ELSE <<>>]
        /\ requests' = [requests EXCEPT ![p] =
                            IF at = "fetch" THEN <<TxHashes(poll.messages)>> ELSE <<>>]
        /\ result' = [result EXCEPT ![p] =
                            IF at = "fetch" THEN NoResult
                            ELSE IF at = "malformed" THEN Err("DeserializeEvent")
                            ELSE Ok(<<>>)]
        /\ pc' = [pc EXCEPT ![p] = IF at = "fetch" THEN "fetching" ELSE "done"]
        /\ UNCHANGED <<verification, config, latest_block_height>>

\* the dispatcher calls handle with a new event
HandleBegin(p) ==
    /\ pc[p] = "idle"
    /\ prev' = [prev EXCEPT ![p] = NoPrev]
    /\ \E ev \in Events, resp \in Responses : Begin(p, ev, resp)

\* the caller calls handle again with the event of the call that just
\* returned, the evidence source answering as before
Replay(p) ==
    /\ pc[p] = "done"
    /\ prev' = [prev EXCEPT ![p] = [result |-> result[p], heights |-> snapshot[p]]]
    /\ Begin(p, event[p], response[p])

\* variant: the evidence request runs detached from the call and its
\* completion still builds the vote after the call was cancelled
FetchReturn_detached(p) ==
    /\ pc[p] \in {"fetching", "cancelled"}
    /\ result' = [result EXCEPT ![p] = AfterFetch(TryInto(event[p]).poll, response[p])]
    /\ pc' = [pc EXCEPT ![p] = "done"]
    /\ UNCHANGED <<verification, config, latest_block_height, event, response, snapshot, requests,
                   decodes, logs, prev>>

\* variant: the decoded poll is kept in a field of the handler that concurrent
\* invocations share, so the votes are built for a poll still being fetched
FetchReturn_shared(p) ==
    /\ pc[p] = "fetching"
    /\ LET q == CHOOSE q \in Procs : pc[q] = "fetching"
       IN  result' = [result EXCEPT ![p] = AfterFetch(TryInto(event[q]).poll, response[p])]
    /\ pc' = [pc EXCEPT ![p] = "done"]
    /\ UNCHANGED <<verification, config, latest_block_height, event, response, snapshot, requests,
                   decodes, logs, prev>>

\* the evidence request completes and handle runs to its end
FetchReturn(p) ==
    /\ pc[p] = "fetching"
    /\ result' = [result EXCEPT ![p] = AfterFetch(TryInto(event[p]).poll, response[p])]
    /\ pc' = [pc EXCEPT ![p] = "done"]
    /\ UNCHANGED <<verification, config, latest_block_height, event, response, snapshot, requests,
                   decodes, logs, prev>>

\* what the caller's execution context reports for a cancelled call
CancelOutcome == Err("Cancelled")

\* the caller's execution context cancels the call while it is suspended at
\* the evidence request: the future is dropped and an error is reported
Cancel(p) ==
    /\ pc[p] = "fetching"
    /\ pc' = [pc EXCEPT ![p] = "cancelled"]
    /\ result' = [result EXCEPT ![p] = CancelOutcome]
    /\ UNCHANGED <<verification, config, latest_block_height, event, response, snapshot, requests,
                   decodes, logs, prev>>

\* the caller drops the returned value; nothing of the invocation is kept
Return(p) ==
    /\ pc[p] \in {"done", "cancelled"}
    /\ pc' = [pc EXCEPT ![p] = "idle"]
    /\ event' = [event EXCEPT ![p] = NoEvent]
    /\ response' = [response EXCEPT ![p] = FetchError]
    /\ snapshot' = [snapshot EXCEPT ![p] = <<>>]
    /\ requests' = [requests EXCEPT ![p] = <<>>]
    /\ decodes' = [decodes EXCEPT ![p] = 0]
    /\ logs' = [logs EXCEPT ![p] = <<>>]
    /\ result' = [result EXCEPT ![p] = NoResult]
    /\ prev' = [prev EXCEPT ![p] = NoPrev]
    /\ UNCHANGED <<verification, config, latest_block_height>>

\* the oracle's writer publishes a height (watch::Sender::send)
OracleSend(h) ==
    /\ h # latest_block_height
    /\ latest_block_height' = h
    /\ UNCHANGED <<verification, config, pc, event, response, snapshot, requests, decodes, logs,
                   result, prev>>

Next ==
    \/ \E p \in SeqProcs : HandleBegin(p)
    \/ \E p \in SeqProcs : Replay(p)
    \/ \E p \in SeqProcs : FetchReturn(p)
    \/ \E p \in SeqProcs : Cancel(p)
    \/ \E p \in SeqProcs : Return(p)
    \/ \E h \in 0..MaxHeight : OracleSend(h)

Spec == Init /\ [][Next]_vars

(***************************************************************************)
(* The message verifier on its own: verify_message applied to a gateway    *)
(* address, a transaction and a message drawn from bounded sets.           *)
(***************************************************************************)
VerifyMessages == {Message("tx1", 0), Message("tx1", 1)}

VerifyGateways == {Gateway, "erd1othergateway"}

\* log records a transaction may carry: the record of Message("tx1", 0), that
\* record with one field changed, and a record that does not parse
VerifyLogs ==
    LET base == LogFor(Gateway, Message("tx1", 0))
    IN  {base,
         [base EXCEPT !.address = "erd1othergateway"],
         [base EXCEPT !.event_index = 1],
         [base EXCEPT !.source_address = "erd1othersource"],
         [base EXCEPT !.destination_chain = "avalanche"],
         [base EXCEPT !.destination_address = "0xother"],
         [base EXCEPT !.payload_hash = "hash-of-other-payload"],
         [address |-> Gateway, data |-> "garbled"]}

VerifyTransactions ==
    [hash : TxIds,
     status : {"success", "fail"},
     logs : {L \in SUBSET VerifyLogs : Cardinality(L) <= MaxLogs}]

VerifyInputs ==
    [gateway : VerifyGateways,
     transaction : VerifyTransactions,
     msg : VerifyMessages,
     vote : {"none"}]

InitVerify == InitHandler /\ verification \in VerifyInputs

\* verify_message is called on the drawn arguments
Verify ==
    /\ verification.vote = "none"
    /\ verification' =
          [verification EXCEPT
              !.vote = verify_message(verification.gateway, verification.transaction,
                                      verification.msg)]
    /\ UNCHANGED <<config, latest_block_height, pc, event, response, snapshot, requests,
                   decodes, logs, result, prev>>

NextVerify == Verify

SpecVerify == InitVerify /\ [][NextVerify]_vars

(***************************************************************************)
(* Concurrent invocations: the dispatcher runs handle for different events *)
(* in several slots at once, over a smaller universe of events and         *)
(* evidence responses.                                                     *)
(***************************************************************************)
ConcMessageLists ==
    {<<Message("tx1", 0)>>, <<Message("tx1", 1), Message("tx2", 0)>>}

ConcPolls ==
    [poll_id : PollIds,
     source_gateway_address : {Gateway},
     messages : ConcMessageLists,
     participants : {<<"axelar1other", Worker>>},
     expires_at : {1, MaxHeight}]
    \cup {[SamplePoll EXCEPT !.participants = <<"axelar1other">>]}

ConcEvents ==
    [contract : {VotingVerifier}, type : {PollStartedTag}, attrs : ConcPolls]
    \cup {[contract |-> "axelar1other", type |-> PollStartedTag, attrs |-> SamplePoll],
          [contract |-> VotingVerifier, type |-> "transfer", attrs |-> NoAttrs]}
    \cup [contract : {VotingVerifier}, type : {PollStartedTag}, attrs : MalformedAttrs]

ConcResponses ==
    {FetchError,
     [ok |-> TRUE, info |-> <<>>],
     [ok |-> TRUE,
      info |-> [tx \in TxIds |->
                  [hash |-> tx, status |-> "success",
                   logs |-> {LogFor(Gateway, Message(tx, 0))}]]]}

\* the dispatcher calls handle in slot p with an event no other slot is handling
HandleBeginConc(p) ==
    /\ pc[p] = "idle"
    /\ prev' = [prev EXCEPT ![p] = NoPrev]
    /\ \E ev \in ConcEvents \ {event[q] : q \in Procs \ {p}}, resp \in ConcResponses :
           Begin(p, ev, resp)

NextConc ==
    \/ \E p \in Procs : HandleBeginConc(p)
    \/ \E p \in Procs : FetchReturn(p)
    \/ \E p \in Procs : Cancel(p)
    \/ \E p \in Procs : Return(p)
    \/ \E h \in 0..MaxHeight : OracleSend(h)

SpecConc == Init /\ [][NextConc]_vars

(***************************************************************************)
(* Properties.                                                             *)
(***************************************************************************)
\* the event of slot p carries the poll-started tag and a well-formed poll
Decodable(p) == event[p].type = PollStartedTag /\ event[p].attrs \in PollAttrs

FromVerifierContract(p) == event[p].contract = voting_verifier_contract

IsParticipant(p) ==
    \E i \in 1..Len(event[p].attrs.participants) : event[p].attrs.participants[i] = verifier

Called(p) == pc[p] # "idle"

ReturnedEmpty(p) == pc[p] = "done" /\ result[p].kind = "ok" /\ result[p].msgs = <<>>

\* C1: a decoded poll of the configured contract with the node as participant
\* and a height read >= expires_at (equality included) returns an empty
\* success and the evidence source is never called
C1_ExpiredPollSkipped ==
    \A p \in Procs :
        (/\ Called(p) /\ FromVerifierContract(p) /\ Decodable(p) /\ IsParticipant(p)
         /\ snapshot[p] # <<>>
         /\ snapshot[p][1] >= event[p].attrs.expires_at)
        => (ReturnedEmpty(p) /\ requests[p] = <<>>)

C1_Witness ==
    \E p \in Procs :
        /\ Called(p) /\ FromVerifierContract(p) /\ Decodable(p) /\ IsParticipant(p)
        /\ snapshot[p] = <<event[p].attrs.expires_at>>
        /\ response[p] = FetchError
        /\ ReturnedEmpty(p)

\* C2: a decoded poll whose participants do not contain the node returns an
\* empty success without a call of the evidence source, whatever the height
\* and the evidence source's answer
C2_NonParticipantSkipped ==
    \A p \in Procs :
        (Called(p) /\ FromVerifierContract(p) /\ Decodable(p) /\ ~IsParticipant(p))
        => (ReturnedEmpty(p) /\ requests[p] = <<>>)

C2_Witness ==
    \E p \in Procs :
        /\ Called(p) /\ FromVerifierContract(p) /\ Decodable(p) /\ ~IsParticipant(p)
        /\ event[p].attrs.participants # <<>>
        /\ latest_block_height < event[p].attrs.expires_at
        /\ response[p] = FetchError
        /\ ReturnedEmpty(p)

\* C3: an event of another contract returns an empty success without a
\* decoding attempt and without a call of the evidence source, also when it
\* carries the poll-started tag and a malformed payload
C3_OtherContractSkipped ==
    \A p \in Procs :
        (Called(p) /\ ~FromVerifierContract(p))
        => (ReturnedEmpty(p) /\ decodes[p] = 0 /\ requests[p] = <<>>)

C3_Witness ==
    \E p \in Procs :
        /\ Called(p) /\ ~FromVerifierContract(p)
        /\ event[p].type = PollStartedTag
        /\ event[p].attrs \in MalformedAttrs
        /\ ReturnedEmpty(p)

\* C4: an event whose tag is not the poll-started tag returns an empty list
\* and never an error
C4_OtherTagSkipped ==
    \A p \in Procs :
        (Called(p) /\ event[p].type # PollStartedTag) => ReturnedEmpty(p)

C4_Witness ==
    \E p \in Procs :
        /\ Called(p) /\ event[p].type # PollStartedTag
        /\ FromVerifierContract(p)
        /\ event[p].attrs \in MalformedAttrs
        /\ response[p] = FetchError
        /\ ReturnedEmpty(p)

\* C5: an event of the configured contract with the poll-started tag and a
\* payload that does not decode returns the deserialization error, no
\* outbound message, and the evidence source is not called
C5_MalformedIsError ==
    \A p \in Procs :
        (/\ Called(p) /\ FromVerifierContract(p)
         /\ event[p].type = PollStartedTag /\ event[p].attrs \notin PollAttrs)
        => (/\ pc[p] = "done"
            /\ result[p] = Err("DeserializeEvent")
            /\ requests[p] = <<>>)

C5_Witness ==
    \E p \in Procs :
        /\ Called(p) /\ FromVerifierContract(p)
        /\ event[p].type = PollStartedTag /\ event[p].attrs \in MalformedAttrs
        /\ result[p].kind = "err"

\* reading the outbound message back: from_any, then the JSON tokens
VoteFromJson(t) ==
    CASE t = "succeeded_on_chain" -> "SucceededOnChain"
      [] t = "failed_on_chain" -> "FailedOnChain"
      [] t = "not_found" -> "NotFound"
      [] OTHER -> "?"

PayloadOf(any) == any.value[3]
PayloadPollId(any) == PayloadOf(any)[4]
PayloadVotes(any) ==
    [i \in 1..(Len(PayloadOf(any)) - 8) |-> VoteFromJson(PayloadOf(any)[6 + i])]

\* slot p handled a decoded poll of the configured contract, the node being a
\* participant and the height read below expires_at
Voting(p) ==
    /\ Called(p) /\ FromVerifierContract(p) /\ Decodable(p) /\ IsParticipant(p)
    /\ snapshot[p] # <<>>
    /\ snapshot[p][1] < event[p].attrs.expires_at

Voted(p) ==
    /\ pc[p] = "done" /\ result[p].kind = "ok" /\ Len(result[p].msgs) = 1

\* the vote the message at position i of slot p's poll is entitled to
ExpectedVote(p, i) ==
    LET msg == event[p].attrs.messages[i]
        info == response[p].info
    IN  IF msg.tx_id \in DOMAIN info
        THEN verify_message(event[p].attrs.source_gateway_address, info[msg.tx_id], msg)
        ELSE "NotFound"

\* C6: for a decoded, participant, non-expired poll, an error of the evidence
\* source makes handle return the transaction-receipts error with no outbound
\* message, the evidence source having been called once
C6_FetchErrorPropagates ==
    \A p \in Procs :
        (Voting(p) /\ ~response[p].ok)
        => (/\ Len(requests[p]) = 1
            /\ result[p].msgs = <<>>
            /\ pc[p] = "done" => result[p] = Err("TxReceipts"))

C6_Witness ==
    \E p \in Procs :
        /\ Voting(p) /\ ~response[p].ok
        /\ pc[p] = "done"
        /\ result[p] = Err("TxReceipts")

\* C7: when the fetch succeeds the emitted votes are as many as the poll's
\* messages and the vote at position i is the vote of the message at position i
C7_VotesFollowMessages ==
    \A p \in Procs :
        (Voting(p) /\ response[p].ok /\ pc[p] = "done")
        => (/\ Voted(p)
            /\ LET votes == PayloadVotes(result[p].msgs[1])
                   messages == event[p].attrs.messages
               IN  /\ Len(votes) = Len(messages)
                   /\ \A i \in 1..Len(messages) : votes[i] = ExpectedVote(p, i))

C7_Witness ==
    \E p \in Procs :
        /\ Voting(p) /\ response[p].ok /\ Voted(p)
        /\ LET messages == event[p].attrs.messages
           IN  /\ Len(messages) = 2
               /\ messages[1].tx_id = messages[2].tx_id
               /\ messages[1] # messages[2]
               /\ ExpectedVote(p, 1) # ExpectedVote(p, 2)
               /\ PayloadVotes(result[p].msgs[1]) = <<ExpectedVote(p, 1), ExpectedVote(p, 2)>>

\* C8: the vote of a message whose transaction id is absent from the evidence
\* map is NotFound, and handle succeeds with one outbound message
C8_AbsentIsNotFound ==
    \A p \in Procs :
        (Voting(p) /\ response[p].ok /\ pc[p] = "done")
        => (/\ Voted(p)
            /\ \A i \in 1..Len(event[p].attrs.messages) :
                   event[p].attrs.messages[i].tx_id \notin DOMAIN response[p].info
                   => /\ i \in DOMAIN PayloadVotes(result[p].msgs[1])
                      /\ PayloadVotes(result[p].msgs[1])[i] = "NotFound")

C8_Witness ==
    \E p \in Procs :
        /\ Voting(p) /\ Voted(p)
        /\ Len(event[p].attrs.messages) = 1
        /\ response[p].ok /\ DOMAIN response[p].info = {}
        /\ PayloadVotes(result[p].msgs[1]) = <<"NotFound">>

\* C9: a non-empty successful result is exactly one cast-vote invocation with
\* the poll id of the handled event and its votes, addressed to the configured
\* voting-verifier contract, sent by the node, without funds; no result has
\* more than one outbound message
C9_OneVoteMessage ==
    \A p \in Procs :
        /\ Len(result[p].msgs) <= 1
        /\ result[p].msgs # <<>>
           => /\ result[p].kind = "ok"
              /\ Decodable(p)
              /\ LET any == result[p].msgs[1]
                 IN  /\ any.type_url = MsgExecuteContractTypeUrl
                     /\ any.value[1] = verifier
                     /\ any.value[2] = voting_verifier_contract
                     /\ any.value[4] = <<>>
                     /\ PayloadOf(any)[2] = "vote"
                     /\ PayloadPollId(any) = event[p].attrs.poll_id
                     /\ PayloadVotes(any) =
                            [i \in 1..Len(event[p].attrs.messages) |-> ExpectedVote(p, i)]

C9_Witness ==
    \E p \in Procs :
        /\ Voted(p)
        /\ event[p].attrs.poll_id = 101
        /\ result[p].msgs[1].value[1] = Worker
        /\ result[p].msgs[1].value[2] = VotingVerifier
        /\ PayloadVotes(result[p].msgs[1]) = <<"SucceededOnChain", "FailedOnChain">>

\* C10 as stated: a second call with the same event and the same evidence
\* responses returns the same outbound vote payloads as the first
C10_SameEventSamePayloads ==
    \A p \in Procs :
        (pc[p] = "done" /\ prev[p].result.kind # "none")
        => result[p].msgs = prev[p].result.msgs

\* C10 amended: a second call with the same event, the same evidence responses
\* and the height read on the same side of expires_at as in the first call
\* returns the same result, with the same outbound vote payloads
C10_SameInputsSameResult ==
    \A p \in Procs :
        (/\ pc[p] = "done" /\ prev[p].result.kind # "none"
         /\ \A i \in DOMAIN snapshot[p] \cap DOMAIN prev[p].heights :
                (snapshot[p][i] >= event[p].attrs.expires_at)
                    <=> (prev[p].heights[i] >= event[p].attrs.expires_at))
        => result[p] = prev[p].result

C10_Witness ==
    \E p \in Procs :
        /\ pc[p] = "done" /\ Voted(p)
        /\ prev[p].result = result[p]
        /\ prev[p].heights # snapshot[p]
        /\ event[p].attrs.messages # <<>>

\* C11: a decoded, participant poll of the configured contract with the height
\* read below expires_at makes handle call the evidence source exactly once,
\* with exactly the set of the transaction ids of the poll's messages
C11_RequestsDistinctTxIds ==
    \A p \in Procs :
        Voting(p)
        => /\ Len(requests[p]) = 1
           /\ \A tx \in TxIds :
                  tx \in requests[p][1]
                  <=> \E i \in 1..Len(event[p].attrs.messages) :
                          event[p].attrs.messages[i].tx_id = tx
           /\ requests[p][1] \subseteq TxIds

C11_Witness ==
    \E p \in Procs :
        /\ Voting(p)
        /\ Len(event[p].attrs.messages) = 2
        /\ event[p].attrs.messages[1].tx_id # event[p].attrs.messages[2].tx_id
        /\ requests[p] = <<TxIds>>
        /\ snapshot[p][1] + 1 = event[p].attrs.expires_at

\* a second reachable case of C11: two messages of one transaction, requested once
C11_SharedIdWitness ==
    \E p \in Procs :
        /\ Voting(p)
        /\ Len(event[p].attrs.messages) = 2
        /\ event[p].attrs.messages[1].tx_id = event[p].attrs.messages[2].tx_id
        /\ Cardinality(requests[p][1]) = 1

\* an outbound message appears in slot p only by the completion of p's own
\* successful evidence request
VoteOnlyAfterFetch ==
    \A p \in Procs :
        (result[p].msgs = <<>> /\ result'[p].msgs # <<>>)
        => (pc[p] = "fetching" /\ pc'[p] = "done" /\ response[p].ok
            /\ Len(requests[p]) = 1)

NoMessageWithError ==
    \A p \in Procs :
        /\ result[p].kind = "err" => result[p].msgs = <<>>
        /\ result[p].msgs # <<>>
           => (pc[p] = "done" /\ result[p].kind = "ok" /\ response[p].ok
               /\ Len(requests[p]) = 1)

\* C12: a vote message is produced only after the evidence fetch of the same
\* invocation returned successfully, and an invocation that ends in an error
\* has produced no outbound message
C12_NoVoteOnError == []NoMessageWithError /\ [][VoteOnlyAfterFetch]_vars

C12_Witness ==
    \E p \in Procs :
        /\ pc[p] = "done" /\ result[p] = Err("TxReceipts")
        /\ Len(requests[p]) = 1
        /\ Len(event[p].attrs.messages) = 2

\* a cancelled invocation has reported an error and carries no message
CancelledIsError ==
    \A p \in Procs :
        pc[p] = "cancelled"
        => (/\ result[p].kind = "err" /\ result[p].msgs = <<>>
            /\ Len(requests[p]) = 1)

\* a cancelled invocation takes no further step of handle and never comes to
\* carry a message
CancelledStaysSilent ==
    \A p \in Procs :
        pc[p] = "cancelled"
        => (pc'[p] \in {"cancelled", "idle"} /\ result'[p].msgs = <<>>)

ExpectedMessage(p) ==
    [type_url |-> MsgExecuteContractTypeUrl,
     value |->
        <<verifier,
          voting_verifier_contract,
          <<"{", "vote", "poll_id", event[p].attrs.poll_id, "votes", "[">>
            \o [i \in 1..Len(event[p].attrs.messages) |-> VoteJson(ExpectedVote(p, i))]
            \o <<"]", "}">>,
          <<>> >>]

\* what handle returns for slot p's event, the height slot p read and the
\* evidence response slot p got, when nothing else runs
ResultAlone(p) ==
    IF ~FromVerifierContract(p) \/ event[p].type # PollStartedTag THEN Ok(<<>>)
    ELSE IF ~Decodable(p) THEN Err("DeserializeEvent")
    ELSE IF ~IsParticipant(p) THEN Ok(<<>>)
    ELSE IF snapshot[p] = <<>> THEN NoResult
    ELSE IF snapshot[p][1] >= event[p].attrs.expires_at THEN Ok(<<>>)
    ELSE IF ~response[p].ok THEN Err("TxReceipts")
    ELSE Ok(<<ExpectedMessage(p)>>)

EachResultAsAlone ==
    /\ verifier = Worker
    /\ voting_verifier_contract = VotingVerifier
    /\ \A p \in Procs : pc[p] = "done" => result[p] = ResultAlone(p)

\* a step of an invocation leaves the other invocations, the handler's
\* configuration and the height oracle as they were
StepsKeepOthers ==
    \A p \in Procs :
        pc'[p] # pc[p]
        => /\ verifier' = verifier
           /\ voting_verifier_contract' = voting_verifier_contract
           /\ latest_block_height' = latest_block_height
           /\ \A q \in Procs \ {p} :
                  /\ pc'[q] = pc[q] /\ event'[q] = event[q] /\ response'[q] = response[q]
                  /\ snapshot'[q] = snapshot[q] /\ requests'[q] = requests[q]
                  /\ result'[q] = result[q]

\* C14: under every interleaving of concurrent invocations for different
\* events, each result is the one the invocation produces alone with its
\* height snapshot and evidence response, and no invocation modifies the
\* handler's configuration or the height oracle
C14_NoInterference == []EachResultAsAlone /\ [][StepsKeepOthers]_vars

C14_Witness ==
    /\ pc[1] = "done" /\ pc[2] = "done"
    /\ Voted(1) /\ Voted(2)
    /\ event[1].attrs.messages # event[2].attrs.messages
    /\ response[1] # response[2]
    /\ snapshot[1] # snapshot[2]
    /\ result[1] # result[2]

\* a log record with all the fields of a gateway record, equal to the message's
LogMatches(log, gateway, msg) ==
    /\ DOMAIN log = {"address", "event_index", "source_address", "destination_chain",
                     "destination_address", "payload_hash"}
    /\ log.address = gateway
    /\ log.event_index = msg.event_index
    /\ log.source_address = msg.source_address
    /\ log.destination_chain = msg.destination_chain
    /\ log.destination_address = msg.destination_address
    /\ log.payload_hash = msg.payload_hash

HasMatchingLog(v) ==
    \E log \in v.transaction.logs : LogMatches(log, v.gateway, v.msg)

\* C15: the verifier yields SucceededOnChain only for a successfully executed
\* transaction with a gateway log record matching all fields of the message
\* (and does so for the message's own transaction); a failed transaction, no
\* matching record or a record that does not parse yield FailedOnChain, and
\* no call ends in anything but a vote
C15_VerifierVotes ==
    verification.vote # "none"
    => /\ verification.vote \in {"SucceededOnChain", "FailedOnChain"}
       /\ verification.vote = "SucceededOnChain"
          => (verification.transaction.status = "success" /\ HasMatchingLog(verification))
       /\ (verification.transaction.status # "success" \/ ~HasMatchingLog(verification))
          => verification.vote = "FailedOnChain"
       /\ (/\ verification.transaction.status = "success"
           /\ HasMatchingLog(verification)
           /\ verification.transaction.hash = verification.msg.tx_id)
          => verification.vote = "SucceededOnChain"

C15_Witness ==
    /\ verification.vote = "FailedOnChain"
    /\ verification.transaction.status = "fail"
    /\ verification.transaction.hash = verification.msg.tx_id
    /\ HasMatchingLog(verification)
    /\ [address |-> Gateway, data |-> "garbled"] \in verification.transaction.logs

\* further reachable cases of C15: a success, and a successful transaction
\* whose only record differs from the message in the payload hash
C15_SucceededWitness ==
    /\ verification.vote = "SucceededOnChain"
    /\ verification.msg.event_index = 1

C15_NoMatchWitness ==
    /\ verification.vote = "FailedOnChain"
    /\ verification.transaction.status = "success"
    /\ verification.transaction.logs =
          {[LogFor(verification.gateway, verification.msg)
              EXCEPT !.payload_hash = "hash-of-other-payload"]}

\* C16: the vote of a message whose transaction id is in the returned evidence
\* map is the verifier's result for the poll's source gateway address, the
\* evidence stored under that id and the message; it is never NotFound
C16_PresentIsVerified ==
    \A p \in Procs :
        (Voting(p) /\ response[p].ok /\ pc[p] = "done")
        => /\ Voted(p)
           /\ \A i \in 1..Len(event[p].attrs.messages) :
                  LET msg == event[p].attrs.messages[i]
                      votes == PayloadVotes(result[p].msgs[1])
                  IN  msg.tx_id \in DOMAIN response[p].info
                      => /\ i \in DOMAIN votes
                         /\ votes[i] # "NotFound"
                         /\ votes[i] = verify_message(event[p].attrs.source_gateway_address,
                                                     response[p].info[msg.tx_id], msg)

C16_Witness ==
    \E p \in Procs :
        /\ Voting(p) /\ response[p].ok /\ Voted(p)
        /\ DOMAIN response[p].info = TxIds
        /\ Len(event[p].attrs.messages) = 2
        /\ event[p].attrs.messages[1].tx_id # event[p].attrs.messages[2].tx_id
        /\ PayloadVotes(result[p].msgs[1]) = <<"SucceededOnChain", "FailedOnChain">>
        /\ LET msg == event[p].attrs.messages[1]
               other == event[p].attrs.messages[2].tx_id
           IN  verify_message(event[p].attrs.source_gateway_address,
                              response[p].info[other], msg) = "FailedOnChain"

\* the four conditions under which an event does not concern the node
SkipCondition(p) ==
    \/ ~FromVerifierContract(p)
    \/ event[p].type # PollStartedTag
    \/ Decodable(p) /\ ~IsParticipant(p)
    \/ /\ Decodable(p) /\ IsParticipant(p)
       /\ snapshot[p] # <<>>
       /\ snapshot[p][1] >= event[p].attrs.expires_at

\* the two conditions under which handle fails
ErrorCondition(p) ==
    /\ FromVerifierContract(p)
    /\ event[p].type = PollStartedTag
    /\ \/ ~Decodable(p)
       \/ /\ IsParticipant(p)
          /\ snapshot[p] # <<>>
          /\ snapshot[p][1] < event[p].attrs.expires_at
          /\ ~response[p].ok

\* C17: handle returns an empty success exactly under a skip condition, an
\* error exactly when the payload of a poll-started event of the configured
\* contract does not decode or the evidence fetch fails, and a one-element
\* list in every other case
C17_OutcomeClassified ==
    \A p \in Procs :
        pc[p] = "done"
        => /\ (result[p].kind = "ok" /\ result[p].msgs = <<>>) <=> SkipCondition(p)
           /\ result[p].kind = "err" <=> ErrorCondition(p)
           /\ (~SkipCondition(p) /\ ~ErrorCondition(p))
              => (result[p].kind = "ok" /\ Len(result[p].msgs) = 1)
           /\ ~(SkipCondition(p) /\ ErrorCondition(p))

C17_Witness ==
    \E p \in Procs :
        /\ pc[p] = "done"
        /\ ErrorCondition(p) /\ Decodable(p)
        /\ result[p].kind = "err"
        /\ prev[p].result.kind = "ok" /\ prev[p].result.msgs = <<>>

\* C18: a poll with no messages is not rejected: for a participant below
\* expires_at the evidence source is called with the empty set and, when that
\* succeeds, handle returns one vote message with an empty votes list
C18_EmptyPollVoted ==
    \A p \in Procs :
        (Voting(p) /\ event[p].attrs.messages = <<>>)
        => /\ requests[p] = <<{}>>
           /\ (pc[p] = "done" /\ response[p].ok)
              => /\ Voted(p)
                 /\ PayloadPollId(result[p].msgs[1]) = event[p].attrs.poll_id
                 /\ PayloadVotes(result[p].msgs[1]) = <<>>

C18_Witness ==
    \E p \in Procs :
        /\ Voting(p) /\ event[p].attrs.messages = <<>>
        /\ response[p].ok /\ DOMAIN response[p].info # {}
        /\ Voted(p)
        /\ PayloadOf(result[p].msgs[1]) =
              <<"{", "vote", "poll_id", event[p].attrs.poll_id, "votes", "[", "]", "}">>

\* C19: the filters run in the order origin, decode, participation, expiry,
\* fetch: "skipping expired poll" is reported only for a decoded poll of the
\* configured contract that lists the node and whose expiry the height read
\* has reached, and evidence is requested only past all four filters
C19_FilterOrder ==
    \A p \in Procs :
        /\ logs[p] # <<>>
           => /\ FromVerifierContract(p) /\ Decodable(p) /\ IsParticipant(p)
              /\ snapshot[p] # <<>>
              /\ snapshot[p][1] >= event[p].attrs.expires_at
              /\ logs[p] = <<event[p].attrs.poll_id>>
              /\ requests[p] = <<>>
        /\ snapshot[p] # <<>>
           => (FromVerifierContract(p) /\ Decodable(p) /\ IsParticipant(p))
        /\ requests[p] # <<>> => Voting(p)
        /\ decodes[p] > 0 => FromVerifierContract(p)

C19_Witness ==
    \E p \in Procs :
        /\ logs[p] = <<101>>
        /\ FromVerifierContract(p) /\ Decodable(p) /\ IsParticipant(p)
        /\ ReturnedEmpty(p)

\* a second reachable case of C19: a non-participant poll handled at a height
\* past its expiry, and not reported
C19_UnreportedWitness ==
    \E p \in Procs :
        /\ pc[p] = "done"
        /\ FromVerifierContract(p) /\ Decodable(p) /\ ~IsParticipant(p)
        /\ latest_block_height >= event[p].attrs.expires_at
        /\ logs[p] = <<>>

\* the oracle is read at most once, before the evidence request, and every
\* vote rests on a height read below expires_at
OneReadBeforeFetch ==
    \A p \in Procs :
        /\ Len(snapshot[p]) <= 1
        /\ requests[p] # <<>> => Len(snapshot[p]) = 1
        /\ result[p].msgs # <<>>
           => (Len(snapshot[p]) = 1 /\ snapshot[p][1] < event[p].attrs.expires_at)
        /\ (Voting(p) /\ response[p].ok /\ pc[p] = "done") => Voted(p)

\* the completion of the fetch does not read the oracle, whatever its value
NoReadAfterFetch ==
    \A p \in Procs :
        pc[p] = "fetching"
        => /\ snapshot'[p] = snapshot[p]
           /\ (pc'[p] = "done" /\ response[p].ok) => Len(result'[p].msgs) = 1

\* C20: an invocation reads the height oracle at most once, before the
\* evidence fetch; a height published while the fetch is pending does not stop
\* the vote, so every vote rests only on a snapshot below expires_at
C20_SingleSnapshot == []OneReadBeforeFetch /\ [][NoReadAfterFetch]_vars

C20_Witness ==
    \E p \in Procs :
        /\ Voted(p)
        /\ snapshot[p][1] < event[p].attrs.expires_at
        /\ latest_block_height >= event[p].attrs.expires_at
        /\ event[p].attrs.messages # <<>>

====
